---- MODULE Spec2Model ----
(***************************************************************************)
(* A model of scrapy/utils/iterators.py: csviter, xmliter, TagReplacer,    *)
(* xmliter_lxml and _StreamReader.                                         *)
(*                                                                         *)
(* Text is a sequence of one-character strings, bytes are a sequence of    *)
(* integers.  A Python value is a record with a "type" field.  Each        *)
(* component has its own variables and its own specification; the other    *)
(* components' variables are idle in it.                                   *)
(***************************************************************************)
EXTENDS Integers, Sequences, FiniteSets, TLC

VARIABLES
  \* csviter (lines 165-211)
  csv_obj,        \* the obj argument: its type and the rows csv.reader parses from it
  headers_arg,    \* the headers argument as the caller passed it
  headers,        \* the local variable headers (rebound at line 200)
  csv_r,          \* the csv.reader: rows consumed so far and its line_num
  yielded,        \* the mappings yielded so far, in order
  warnings,       \* the logger.warning records emitted so far, in order
  csv_pc,         \* "start", "loop", "done" or "raised"
  \* _StreamReader (lines 140-162)
  sr_text,        \* self._text: [type, val], text or bytes
  sr_encoding,    \* self.encoding
  sr_ptr,         \* self._ptr
  sr_is_unicode,  \* self._is_unicode
  sr_read,        \* the function self.read is bound to
  sr_log,         \* what the caller saw: one record per read call
  \* TagReplacer (lines 55-115)
  tr_obj,         \* the obj the caller passes to the next call of replace
  tr_log,         \* the calls of replace made: arguments and outcome
  \* xmliter (lines 14-53)
  xi_obj,         \* the obj argument: its type, its elements and the text it holds
  xi_nodename,    \* the nodename argument
  xi_pos,         \* where r.finditer(text) resumes its scan
  xi_yielded,     \* the node texts of the Selectors yielded so far, in order
  xi_pc,          \* "start", "loop", "done" or "raised"
  \* xmliter_lxml (lines 119-137)
  lx_args,        \* the arguments obj, nodename, namespace and prefix
  lx_setup,       \* nodename_sanitized, obj_sanitized, tag and selxpath
  lx_nodes,       \* the nodes iterparse fires: the content each node object holds
                  \* and the source text it was parsed from
  lx_idx,         \* how many nodes the loop has been handed
  lx_nodetext,    \* the local variable nodetext
  lx_xs,          \* the local variable xs
  lx_yielded,     \* the records handed to the caller so far
  lx_pc           \* the line the generator is at

csvVars == <<csv_obj, headers_arg, headers, csv_r, yielded, warnings, csv_pc>>

srVars == <<sr_text, sr_encoding, sr_ptr, sr_is_unicode, sr_read, sr_log>>

trVars == <<tr_obj, tr_log>>

xiVars == <<xi_obj, xi_nodename, xi_pos, xi_yielded, xi_pc>>

lxVars == <<lx_args, lx_setup, lx_nodes, lx_idx, lx_nodetext, lx_xs, lx_yielded, lx_pc>>

vars == <<csvVars, srVars, trVars, xiVars, lxVars>>

----------------------------------------------------------------------------
\* Sequence helpers.

Range(s) == {s[i] : i \in 1..Len(s)}

Min(a, b) == IF a < b THEN a ELSE b

\* All sequences over S of length at most n.
SeqsUpTo(S, n) == UNION {[1..k -> S] : k \in 0..n}

\* s[a..b] in Python-slice terms: the elements with 0-based index a <= i < b.
Slice(s, a, b) == SubSeq(s, Min(a, Len(s)) + 1, Min(b, Len(s)))

----------------------------------------------------------------------------
\* Text and bytes.

Lower ==
  {"a", "b", "c", "d", "e", "f", "g", "h", "i", "j", "k", "l", "m",
   "n", "o", "p", "q", "r", "s", "t", "u", "v", "w", "x", "y", "z"}

Upper ==
  {"A", "B", "C", "D", "E", "F", "G", "H", "I", "J", "K", "L", "M",
   "N", "O", "P", "Q", "R", "S", "T", "U", "V", "W", "X", "Y", "Z"}

Digits == {"0", "1", "2", "3", "4", "5", "6", "7", "8", "9"}

\* \s of a str pattern.
Whitespace == {" ", "\t", "\n", "\r", "\f"}

\* \w of a str pattern.
WordChars == Lower \cup Upper \cup Digits \cup {"_"}

\* The first position at or after j whose character is not in S (Len + 1 if none).
RECURSIVE SkipWhile(_, _, _)
SkipWhile(text, j, S) ==
  IF j <= Len(text) /\ text[j] \in S THEN SkipWhile(text, j + 1, S) ELSE j

\* The first position at or after j that holds character c (Len + 1 if none).
RECURSIVE FindChar(_, _, _)
FindChar(text, j, c) ==
  IF j <= Len(text) /\ text[j] # c THEN FindChar(text, j + 1, c) ELSE j

\* text[i..] starts with the literal lit.
StartsWith(text, i, lit) ==
  /\ i >= 1
  /\ i + Len(lit) - 1 <= Len(text)
  /\ \A k \in 1..Len(lit) : text[i + k - 1] = lit[k]

\* The concatenation of a sequence of sequences.
RECURSIVE Concat(_)
Concat(ss) == IF ss = <<>> THEN <<>> ELSE Head(ss) \o Concat(Tail(ss))

\* n copies of s.
RECURSIVE Repeat(_, _)
Repeat(s, n) == IF n = 0 THEN <<>> ELSE s \o Repeat(s, n - 1)

\* The characters of the documents and their UTF-8 encodings.
CodeTable ==
  { <<"<", <<60>>>>, <<">", <<62>>>>, <<"/", <<47>>>>, <<"\\", <<92>>>>,
    <<"a", <<97>>>>, <<"b", <<98>>>>, <<"c", <<99>>>>, <<"k", <<107>>>>,
    <<"v", <<118>>>>, <<"x", <<120>>>>, <<":", <<58>>>>, <<"-", <<45>>>>,
    <<" ", <<32>>>>, <<"=", <<61>>>>, <<"\"", <<34>>>>, <<"\n", <<10>>>>,
    <<"e'", <<195, 169>>>> }

\* str.encode(self.default_encoding), the default being utf-8.
RECURSIVE Encode(_)
Encode(t) ==
  IF t = <<>> THEN <<>>
  ELSE (CHOOSE p \in CodeTable : p[1] = Head(t))[2] \o Encode(Tail(t))

\* bytes.decode(self.default_encoding): the text, or a UnicodeDecodeError.
RECURSIVE Decode(_)
Decode(b) ==
  IF b = <<>> THEN [ok |-> TRUE, val |-> <<>>]
  ELSE LET hits == {p \in CodeTable :
                      Len(p[2]) <= Len(b) /\ SubSeq(b, 1, Len(p[2])) = p[2]}
       IN IF hits = {} THEN [ok |-> FALSE, val |-> <<>>]
          ELSE LET p == CHOOSE h \in hits : TRUE
                   rest == Decode(SubSeq(b, Len(p[2]) + 1, Len(b)))
               IN [ok |-> rest.ok, val |-> <<p[1]>> \o rest.val]

\* A Python value: its type, its characters when it holds text, its bytes when
\* it holds bytes.  A Response holds both, its text and its body.
Str(s) == [type |-> "str", text |-> s, data |-> <<>>]

Bytes(b) == [type |-> "bytes", text |-> <<>>, data |-> b]

Resp(s) == [type |-> "Response", text |-> s, data |-> Encode(s)]

\* A value of another type; an int stands for them all.
Other == [type |-> "int", text |-> <<>>, data |-> <<>>]

\* The outcome of a call: the value returned, or the exception raised.
Raise(exc) == [raised |-> TRUE, exc |-> exc, val |-> Other]

Return(v) == [raised |-> FALSE, exc |-> "none", val |-> v]

----------------------------------------------------------------------------
\* csviter

\* The bound on the number of rows of a csv document.
MaxRows == 3

\* The rows csv.reader can produce: the fields of a row and the number of
\* physical lines it spans (a quoted field may hold a line break; a blank
\* line gives a row with no fields).
RowPool ==
  { [fields |-> <<>>, nlines |-> 1],
    [fields |-> <<"1">>, nlines |-> 1],
    [fields |-> <<"1", "2">>, nlines |-> 1],
    [fields |-> <<"2", "1">>, nlines |-> 2],
    [fields |-> <<"1", "2", "1">>, nlines |-> 1] }

\* The headers arguments tried: None, an empty sequence, and names with and
\* without a duplicate.
HeadersPool ==
  { [given |-> FALSE, names |-> <<>>],
    [given |-> TRUE, names |-> <<>>],
    [given |-> TRUE, names |-> <<"x">>],
    [given |-> TRUE, names |-> <<"x", "y">>],
    [given |-> TRUE, names |-> <<"x", "x">>] }

\* The types of object a caller may pass; "int" stands for any other type.
ObjTypes == {"str", "bytes", "Response", "int"}

\* isinstance(obj, (Response, str, bytes)), the test of _body_or_str.
ExpectedType(t) == t \in {"Response", "str", "bytes"}

\* _body_or_str: raises TypeError for an unexpected type, else returns text.
_body_or_str(obj) ==
  IF ~ExpectedType(obj.type) THEN [raised |-> TRUE, exc |-> "TypeError"]
  ELSE [raised |-> FALSE, exc |-> "none"]

\* row_to_unicode: to_unicode of each field; csv.reader's fields are str
\* already, and to_unicode returns a str unchanged.
row_to_unicode(row_) == [i \in 1..Len(row_) |-> row_[i]]

\* "not headers" (line 195): None and an empty sequence are both falsy.
NotHeaders_always(h) == TRUE

NotHeaders(h) == ~h.given \/ h.names = <<>>

\* len(row) != len(headers) (line 204).
RowMismatch_longer(row, hdr) == Len(row) > Len(hdr)

RowMismatch(row, hdr) == Len(row) # Len(hdr)

\* dict(zip(headers, row)): zip stops at the shorter, a later duplicate key wins.
DictZip(hdr, row) ==
  LET n == Min(Len(hdr), Len(row))
      keys == {hdr[i] : i \in 1..n}
      last(k) == CHOOSE i \in 1..n : hdr[i] = k /\ \A j \in 1..n : hdr[j] = k => j <= i
  IN [k \in keys |-> row[last(k)]]

CsvIdle ==
  /\ csv_obj = [type |-> "str", rows |-> <<>>]
  /\ headers_arg = [given |-> FALSE, names |-> <<>>]
  /\ headers = headers_arg
  /\ csv_r = [pos |-> 0, line_num |-> 0]
  /\ yielded = <<>>
  /\ warnings = <<>>
  /\ csv_pc = "idle"

CsvInit ==
  /\ csv_obj \in [type : ObjTypes, rows : SeqsUpTo(RowPool, MaxRows)]
  /\ headers_arg \in HeadersPool
  /\ headers = headers_arg
  /\ csv_r = [pos |-> 0, line_num |-> 0]
  /\ yielded = <<>>
  /\ warnings = <<>>
  /\ csv_pc = "start"

\* next(csv_r): the reader after handing out its next row.
ReaderNext(r, rows) ==
  [pos |-> r.pos + 1, line_num |-> r.line_num + rows[r.pos + 1].nlines]

\* Lines 181-200: coerce the object, build the reader, resolve the header.
CsvStart ==
  /\ csv_pc = "start"
  /\ IF _body_or_str(csv_obj).raised
       THEN /\ csv_pc' = "raised"
            /\ UNCHANGED <<headers, csv_r>>
       ELSE IF NotHeaders(headers)
         THEN IF csv_r.pos >= Len(csv_obj.rows)
                THEN /\ csv_pc' = "done"             \* StopIteration: return
                     /\ UNCHANGED <<headers, csv_r>>
                ELSE /\ headers' = [given |-> TRUE,
                                    names |-> row_to_unicode(csv_obj.rows[csv_r.pos + 1].fields)]
                     /\ csv_r' = ReaderNext(csv_r, csv_obj.rows)
                     /\ csv_pc' = "loop"
         ELSE /\ csv_pc' = "loop"
              /\ UNCHANGED <<headers, csv_r>>
  /\ UNCHANGED <<csv_obj, headers_arg, yielded, warnings>>
  /\ UNCHANGED <<srVars, trVars, xiVars, lxVars>>

\* Lines 202-211: one turn of the loop over the remaining rows.
CsvLoop ==
  /\ csv_pc = "loop"
  /\ IF csv_r.pos >= Len(csv_obj.rows)
       THEN /\ csv_pc' = "done"
            /\ UNCHANGED <<csv_r, yielded, warnings>>
       ELSE LET r == ReaderNext(csv_r, csv_obj.rows)
                row == row_to_unicode(csv_obj.rows[csv_r.pos + 1].fields)
            IN /\ csv_r' = r
               /\ csv_pc' = "loop"
               /\ IF RowMismatch(row, headers.names)
                    THEN /\ warnings' = Append(warnings,
                                               [csvlnum |-> r.line_num,
                                                csvrow |-> Len(row),
                                                csvheader |-> Len(headers.names)])
                         /\ UNCHANGED yielded
                    ELSE /\ yielded' = Append(yielded, DictZip(headers.names, row))
                         /\ UNCHANGED warnings
  /\ UNCHANGED <<csv_obj, headers_arg, headers>>
  /\ UNCHANGED <<srVars, trVars, xiVars, lxVars>>

----------------------------------------------------------------------------
\* TagReplacer

\* re.MULTILINE, which line 85 passes to re.sub in the place of count.
RE_MULTILINE == 8

\* The character class [a-z0-9-:_] of line 91.
TagChars == Lower \cup Digits \cup {"-", ":", "_"}

\* _validate_tag_name (lines 87-91): a str that re.match(r"^[a-z0-9-:_]{1,}$")
\* accepts; "$" matches at the end and also just before a final line break.
_validate_tag_name(tag) ==
  /\ tag.type = "str"
  /\ \E m \in 1..Len(tag.text) :
       /\ \A i \in 1..m : tag.text[i] \in TagChars
       /\ \/ m = Len(tag.text)
          \/ m = Len(tag.text) - 1 /\ tag.text[Len(tag.text)] = "\n"

\* The lookahead (?=((\s+\w+=".+")\s*)*>) of line 84 at position j: any number
\* of groups \s+\w+=".+"\s* and then ">"; "." is any character but a line break.
RECURSIVE Lookahead(_, _)
Lookahead(text, j) ==
  /\ j <= Len(text)
  /\ \/ text[j] = ">"
     \/ LET p == SkipWhile(text, j, Whitespace)
            q == SkipWhile(text, p, WordChars)
            eol == FindChar(text, q + 2, "\n")
        IN /\ p > j
           /\ q > p
           /\ q + 1 <= Len(text)
           /\ text[q] = "="
           /\ text[q + 1] = "\""
           /\ \E r \in (q + 3)..(eol - 1) :
                /\ text[r] = "\""
                /\ \E e \in (r + 1)..SkipWhile(text, r + 1, Whitespace) :
                     Lookahead(text, e)

\* The lookbehind (?<!\\<\/) of line 84 in a raw string: the three characters
\* before position i are not a backslash, "<" and "/".
Lookbehind(text, i) ==
  ~(i > 3 /\ text[i - 3] = "\\" /\ text[i - 2] = "<" /\ text[i - 1] = "/")

\* old_tag_pattern matches at position i.
PatternAt(text, i, old) ==
  /\ Lookbehind(text, i)
  /\ StartsWith(text, i, old)
  /\ Lookahead(text, i + Len(old))

\* re.sub(old_tag_pattern, new, text, count) from position pos on: the matches
\* are taken left to right, none overlapping the one before, at most count of
\* them (a match is never empty).
RECURSIVE Sub(_, _, _, _, _)
Sub(old, new, text, pos, count) ==
  IF pos > Len(text) THEN <<>>
  ELSE IF count = 0 THEN SubSeq(text, pos, Len(text))
  ELSE IF PatternAt(text, pos, old)
    THEN new \o Sub(old, new, text, pos + Len(old), count - 1)
    ELSE <<text[pos]>> \o Sub(old, new, text, pos + 1, count)

\* re.sub for a pattern that is the bare tag name, without the lookbehind and
\* the lookahead.
RECURSIVE SubLiteral(_, _, _, _, _)
SubLiteral(old, new, text, pos, count) ==
  IF pos > Len(text) THEN <<>>
  ELSE IF count = 0 THEN SubSeq(text, pos, Len(text))
  ELSE IF StartsWith(text, pos, old)
    THEN new \o SubLiteral(old, new, text, pos + Len(old), count - 1)
    ELSE <<text[pos]>> \o SubLiteral(old, new, text, pos + 1, count)

\* _sub_tags with the tag names in the wrong order.
_sub_tags_swapped(old_tag, new_tag, text) == Sub(new_tag, old_tag, text, 1, RE_MULTILINE)

\* _sub_tags matching the bare tag name.
_sub_tags_everywhere(old_tag, new_tag, text) ==
  SubLiteral(old_tag, new_tag, text, 1, RE_MULTILINE)

\* _sub_tags (lines 83-85).
_sub_tags(old_tag, new_tag, text) == Sub(old_tag, new_tag, text, 1, RE_MULTILINE)

\* _decode (lines 93-105): the text of obj; a Response carries its text.
_decode(obj) ==
  IF obj.type = "Response" THEN Return(Str(obj.text))
  ELSE IF obj.type = "str" THEN Return(obj)
  ELSE IF obj.type = "bytes"
    THEN (IF Decode(obj.data).ok THEN Return(Str(Decode(obj.data).val))
          ELSE Raise("UnicodeDecodeError"))
  ELSE Raise("TypeError")

\* _encode_as (lines 107-115): newBody in the shape of oldObj.
_encode_as(newBody, oldObj) ==
  IF oldObj.type = "Response" THEN Return(Resp(newBody))
  ELSE IF oldObj.type = "str" THEN Return(Str(newBody))
  ELSE IF oldObj.type = "bytes" THEN Return(Bytes(Encode(newBody)))
  ELSE Raise("TypeError")

\* replace (lines 59-81): the value returned or the exception raised.
replace(obj, old_tag, new_tag) ==
  IF ~_validate_tag_name(old_tag) THEN Raise("ValueError")
  ELSE IF ~_validate_tag_name(new_tag) THEN Raise("ValueError")
  ELSE LET decoded_text == _decode(obj)
       IN IF decoded_text.raised THEN decoded_text
          ELSE _encode_as(_sub_tags(old_tag.text, new_tag.text, decoded_text.val.text), obj)

\* The bounds on a document: the number of leading fragments and the number of
\* opening tags that follow them.
MaxFrags == 2

MaxReps == 9

TagAB == <<"a", ":", "b">>

TagAlias == <<"a", "-", "b">>

\* The pieces documents are made of: an opening tag, a closing tag, an opening
\* tag with an attribute, the tag name in element text, the alias as a tag, a
\* closing tag behind a backslash, the tag name in an attribute value, text.
Fragments ==
  { <<"<">> \o TagAB \o <<">">>,
    <<"<", "/">> \o TagAB \o <<">">>,
    <<"<">> \o TagAB \o <<" ", "k", "=", "\"", "v", "\"", ">">>,
    TagAB \o <<" ">>,
    <<"<">> \o TagAlias \o <<">">>,
    <<"\\", "<", "/">> \o TagAB \o <<">">>,
    <<"<", "c", " ", "k", "=", "\"">> \o TagAB \o <<"\"", ">">>,
    <<"x">> }

\* The text documents: a few fragments, then a run of opening tags.
TextDocs ==
  { Concat(fs) \o Repeat(<<"<">> \o TagAB \o <<">">>, n) :
      fs \in SeqsUpTo(Fragments, MaxFrags), n \in 0..MaxReps }

\* The documents in the other shapes: bytes (valid UTF-8 and not), a Response,
\* and an object of an unsupported type.
OtherDocs ==
  { Bytes(Encode(f)) : f \in Fragments }
  \cup { Bytes(<<195>>) }
  \cup { Resp(f) : f \in Fragments }
  \cup { Other }

\* The tag-name arguments of a call: the pair of the sanitizer and its reverse,
\* and pairs with a name that is empty, upper-case, not a str, or ends in a
\* line break.
TagPairs ==
  { <<Str(TagAB), Str(TagAlias)>>,
    <<Str(TagAlias), Str(TagAB)>>,
    <<Str(<<>>), Str(TagAlias)>>,
    <<Str(TagAB), Str(<<"A">>)>>,
    <<Other, Str(TagAlias)>>,
    <<Str(TagAB \o <<"\n">>), Str(TagAlias)>>,
    <<Str(TagAB), Str(TagAlias \o <<"\n">>)>> }

TrIdle ==
  /\ tr_obj = Str(<<>>)
  /\ tr_log = <<>>

TrInit ==
  /\ tr_obj \in {Str(d) : d \in TextDocs} \cup OtherDocs
  /\ tr_log = <<>>

\* A first call replace(obj, old_tag, new_tag).
TrReplace ==
  /\ tr_log = <<>>
  /\ \E pair \in TagPairs :
       LET out == replace(tr_obj, pair[1], pair[2])
       IN /\ tr_log' = <<[obj |-> tr_obj, old_tag |-> pair[1], new_tag |-> pair[2],
                          out |-> out]>>
          /\ tr_obj' = IF out.raised THEN tr_obj ELSE out.val
  /\ UNCHANGED <<csvVars, srVars, xiVars, lxVars>>

\* A second call, on what the first returned, with the tag names exchanged.
TrRestore ==
  /\ Len(tr_log) = 1
  /\ ~tr_log[1].out.raised
  /\ LET out == replace(tr_obj, tr_log[1].new_tag, tr_log[1].old_tag)
     IN /\ tr_log' = Append(tr_log, [obj |-> tr_obj, old_tag |-> tr_log[1].new_tag,
                                     new_tag |-> tr_log[1].old_tag, out |-> out])
        /\ tr_obj' = IF out.raised THEN tr_obj ELSE out.val
  /\ UNCHANGED <<csvVars, srVars, xiVars, lxVars>>

----------------------------------------------------------------------------
\* _StreamReader

\* The bounds on a source's length, on the size a read asks for, and on the
\* number of reads of one reader.
MaxLen == 3

MaxN == 2

MaxReads == 3

\* The characters of a text source: whitespace, markup and a non-ASCII letter.
SrChars == {" ", "<", "e'"}

\* The bytes of a bytes source.
SrBytes == {32, 60, 195}

\* The bytes bytes.lstrip() removes: ASCII whitespace.
ByteWhitespace == {9, 10, 11, 12, 13, 32}

\* bytes.lstrip().
RECURSIVE lstrip(_)
lstrip(b) == IF b # <<>> /\ Head(b) \in ByteWhitespace THEN lstrip(Tail(b)) ELSE b

\* The objects a reader is built from.
SrObjects ==
  { [obj |-> Str(t), encoding |-> "none"] : t \in SeqsUpTo(SrChars, MaxLen) }
  \cup { [obj |-> Bytes(b), encoding |-> "none"] : b \in SeqsUpTo(SrBytes, MaxLen) }
  \cup { [obj |-> [type |-> "Response", text |-> <<>>, data |-> b], encoding |-> "latin-1"] :
            b \in SeqsUpTo(SrBytes, MaxLen) }

SrIdle ==
  /\ sr_text = Bytes(<<>>)
  /\ sr_encoding = "utf-8"
  /\ sr_ptr = 0
  /\ sr_is_unicode = FALSE
  /\ sr_read = "idle"
  /\ sr_log = <<>>

\* __init__ (lines 142-148): the state after construction from obj.
SrInit ==
  \E o \in SrObjects :
    /\ sr_ptr = 0
    /\ IF o.obj.type = "Response"
         THEN sr_text = Bytes(o.obj.data) /\ sr_encoding = o.encoding
         ELSE sr_text = o.obj /\ sr_encoding = "utf-8"
    /\ sr_is_unicode = (o.obj.type = "str")
    /\ sr_read = "read"
    /\ sr_log = <<>>

\* "s, e = self._ptr, self._ptr + n; self._ptr = e" (lines 155-156, 160-161):
\* the cursor after a read of n from ptr, of a source of length len.
Advance_clamped(ptr, n, len) == Min(ptr + n, len)

Advance(ptr, n, len) == ptr + n

\* _read_string (lines 154-157): the chunk returned.
_read_string(text, ptr, n) == Slice(text, ptr, ptr + n)

\* _read_unicode (lines 159-162): the chunk returned.
_read_unicode(text, ptr, n) == Encode(Slice(text, ptr, ptr + n))

\* len(self._text): characters of a text source, bytes of a bytes source.
SrLen == IF sr_is_unicode THEN Len(sr_text.text) ELSE Len(sr_text.data)

\* The chunk of whichever reader self.read is rebound to at line 151.
ReadBound(n) ==
  IF sr_is_unicode THEN _read_unicode(sr_text.text, sr_ptr, n)
  ELSE _read_string(sr_text.data, sr_ptr, n)

\* A call of reader.read(n).  The first call runs read (lines 150-152), which
\* rebinds self.read and strips the chunk; later calls run the rebound method.
SrRead(n) ==
  /\ sr_read # "idle"
  /\ Len(sr_log) < MaxReads
  /\ LET chunk == ReadBound(n)
         ret == IF sr_read = "read" THEN lstrip(chunk) ELSE chunk
     IN /\ sr_read' = (IF sr_is_unicode THEN "_read_unicode" ELSE "_read_string")
        /\ sr_ptr' = Advance(sr_ptr, n, SrLen)
        /\ sr_log' = Append(sr_log, [n |-> n, before |-> sr_ptr,
                                     after |-> Advance(sr_ptr, n, SrLen),
                                     ret |-> ret])
  /\ UNCHANGED <<sr_text, sr_encoding, sr_is_unicode>>
  /\ UNCHANGED <<csvVars, trVars, xiVars, lxVars>>

SrCall == \E n \in 1..MaxN : SrRead(n)

----------------------------------------------------------------------------
\* xmliter

\* The bound on the number of child elements of a document's root.
MaxElems == 3

NodeT == <<"t">>

\* The child elements documents are made of, each with whether it is an
\* occurrence of the element t: plain, with an attribute, self-closing without
\* and with a space, with whitespace in the end tag, with whitespace in the
\* start tag, and an element of another name.
Elements ==
  { [occurrence |-> TRUE, text |-> <<"<", "t", ">", "x", "<", "/", "t", ">">>],
    [occurrence |-> TRUE,
     text |-> <<"<", "t", " ", "k", "=", "\"", "v", "\"", ">", "x", "<", "/", "t", ">">>],
    [occurrence |-> TRUE, text |-> <<"<", "t", "/", ">">>],
    [occurrence |-> TRUE, text |-> <<"<", "t", " ", "/", ">">>],
    [occurrence |-> TRUE, text |-> <<"<", "t", ">", "x", "<", "/", "t", " ", ">">>],
    [occurrence |-> TRUE, text |-> <<"<", "t", " ", ">", "x", "<", "/", "t", ">">>],
    [occurrence |-> FALSE, text |-> <<"<", "u", ">", "x", "<", "/", "u", ">">>] }

\* The well-formed document with the given children under a root element r.
Render(elems) ==
  <<"<", "r", ">">> \o Concat([i \in 1..Len(elems) |-> elems[i].text]) \o <<"<", "/", "r", ">">>

\* str.strip().
RECURSIVE Strip(_)
Strip(t) ==
  IF t # <<>> /\ Head(t) \in Whitespace THEN Strip(Tail(t))
  ELSE IF t # <<>> /\ t[Len(t)] \in Whitespace THEN Strip(SubSeq(t, 1, Len(t) - 1))
  ELSE t

\* HEADER_END_RE (line 26), <\s*/nodename\s*>, at position i: the position of
\* its ">", or 0 when it does not match there.
HeaderEndAt(text, i, nodename) ==
  IF i > Len(text) \/ text[i] # "<" THEN 0
  ELSE LET p == SkipWhile(text, i + 1, Whitespace)
           q == SkipWhile(text, p + 1 + Len(nodename), Whitespace)
       IN IF /\ p <= Len(text)
             /\ text[p] = "/"
             /\ StartsWith(text, p + 1, nodename)
             /\ q <= Len(text)
             /\ text[q] = ">"
            THEN q ELSE 0

\* re_rsearch(HEADER_END_RE, text): the end offset of the last match, or 0.
re_rsearch(text, nodename) ==
  LET hits == {i \in 1..Len(text) : HeaderEndAt(text, i, nodename) > 0}
  IN IF hits = {} THEN 0
     ELSE HeaderEndAt(text, CHOOSE i \in hits : \A j \in hits : j <= i, nodename)

\* header_end (lines 33-34).
header_end(text, nodename) ==
  IF re_rsearch(text, nodename) = 0 THEN <<>>
  ELSE Strip(SubSeq(text, re_rsearch(text, nodename) + 1, Len(text)))

\* The pattern of line 42, <nodename[\s>].*?</nodename> with DOTALL, at
\* position i: the position of the last character of the match, or 0.
EndTag(nodename) == <<"<", "/">> \o nodename \o <<">">>

NodeClose(text, j, nodename) == StartsWith(text, j, EndTag(nodename))

NodeMatchAt(text, i, nodename) ==
  LET after == i + 1 + Len(nodename)
      ends == {j \in (after + 1)..Len(text) : NodeClose(text, j, nodename)}
  IN IF /\ StartsWith(text, i, <<"<">> \o nodename)
        /\ after <= Len(text)
        /\ text[after] \in Whitespace \cup {">"}
        /\ ends # {}
       THEN (CHOOSE j \in ends : \A k \in ends : j <= k) + Len(nodename) + 2
       ELSE 0

\* r.finditer(text) resumed at pos: the start of the next match, or 0.
NextMatch(text, pos, nodename) ==
  LET starts == {i \in pos..Len(text) : NodeMatchAt(text, i, nodename) > 0}
  IN IF starts = {} THEN 0 ELSE CHOOSE i \in starts : \A k \in starts : i <= k

\* nodetext (lines 44-52) of a match: the document header, the match with the
\* namespace declarations put after its first nodename, and header_end.  The
\* documents here have no <?xml header and declare no namespace, so the header
\* is empty and the declarations joined are the empty string.
NodeText(text, m, e, nodename) ==
  <<"<">> \o nodename \o <<" ">> \o SubSeq(text, m + 1 + Len(nodename), e)
  \o header_end(text, nodename)

XiIdle ==
  /\ xi_obj = [type |-> "str", elems |-> <<>>, text |-> <<>>]
  /\ xi_nodename = NodeT
  /\ xi_pos = 1
  /\ xi_yielded = <<>>
  /\ xi_pc = "idle"

XiInit ==
  /\ \E t \in ObjTypes, es \in SeqsUpTo(Elements, MaxElems) :
       xi_obj = [type |-> t, elems |-> es, text |-> Render(es)]
  /\ xi_nodename = NodeT
  /\ xi_pos = 1
  /\ xi_yielded = <<>>
  /\ xi_pc = "start"

\* Lines 23-42: coerce the object to text and compile the patterns.
XiStart ==
  /\ xi_pc = "start"
  /\ xi_pc' = IF _body_or_str(xi_obj).raised THEN "raised" ELSE "loop"
  /\ UNCHANGED <<xi_obj, xi_nodename, xi_pos, xi_yielded>>
  /\ UNCHANGED <<csvVars, srVars, trVars, lxVars>>

\* Lines 43-53: one turn of the loop over the matches.
XiLoop ==
  /\ xi_pc = "loop"
  /\ LET m == NextMatch(xi_obj.text, xi_pos, xi_nodename)
         e == NodeMatchAt(xi_obj.text, m, xi_nodename)
     IN IF m = 0
          THEN /\ xi_pc' = "done"
               /\ UNCHANGED <<xi_pos, xi_yielded>>
          ELSE /\ xi_yielded' = Append(xi_yielded, NodeText(xi_obj.text, m, e, xi_nodename))
               /\ xi_pos' = e + 1
               /\ xi_pc' = "loop"
  /\ UNCHANGED <<xi_obj, xi_nodename>>
  /\ UNCHANGED <<csvVars, srVars, trVars, lxVars>>

----------------------------------------------------------------------------
\* xmliter_lxml

\* The bound on the number of nodes the parser fires.
MaxNodes == 3

\* str.find(":") > 0 (line 123): a colon after the first character.
HasSeparator(nodename) == \E i \in 2..Len(nodename) : nodename[i] = ":"

\* nodename.replace(":", "-") (line 124).
Sanitize(nodename) ==
  [i \in 1..Len(nodename) |-> IF nodename[i] = ":" THEN "-" ELSE nodename[i]]

\* The arguments of a call: a document, a node name with or without the
\* separator, and a namespace or None.
LxArgs ==
  [obj : {Str(<<"<">> \o TagAB \o <<">", "1", "<", "/">> \o TagAB \o <<">">>),
          Str(<<"<", "t", ">", "1", "<", "/", "t", ">">>),
          Bytes(<<60, 97, 58, 98, 47, 62>>),
          Other},
   nodename : {TagAB, NodeT, <<":", "t">>, <<"A", ":", "b">>},
   namespace : {[given |-> FALSE, uri |-> ""], [given |-> TRUE, uri |-> "urn:x"]},
   prefix : {"x"}]

\* Lines 121-130: the names and the document the parser is set up with.
Setup(args) ==
  LET san == IF HasSeparator(args.nodename) THEN Sanitize(args.nodename) ELSE args.nodename
      rep == IF HasSeparator(args.nodename)
               THEN replace(args.obj, Str(args.nodename), Str(san))
               ELSE Return(args.obj)
  IN [raised |-> rep.raised,
      exc |-> rep.exc,
      nodename_sanitized |-> san,
      obj_sanitized |-> rep.val,
      tag |-> [namespace |-> args.namespace, name |-> san],
      selxpath |-> [prefix |-> IF args.namespace.given THEN args.prefix ELSE "", name |-> san]]

\* node.clear() (line 133): the node keeps its tag and loses its content.
node_clear_nothing(node) == node

node_clear(node) == [node EXCEPT !.content = <<>>]

\* etree.tostring(node, encoding='unicode') (line 132): the node's content as it is now.
tostring(node) == node.content

LxIdle ==
  /\ lx_args = [obj |-> Str(<<>>), nodename |-> NodeT,
                namespace |-> [given |-> FALSE, uri |-> ""], prefix |-> "x"]
  /\ lx_setup = Setup(lx_args)
  /\ lx_nodes = <<>>
  /\ lx_idx = 0
  /\ lx_nodetext = <<>>
  /\ lx_xs = [text |-> <<>>, namespaces |-> {}]
  /\ lx_yielded = <<>>
  /\ lx_pc = "idle"

LxInit ==
  /\ lx_args \in LxArgs
  /\ lx_setup = Setup(lx_args)
  /\ lx_nodes \in SeqsUpTo({[content |-> c, source |-> c] : c \in {<<"1">>, <<"2">>}}, MaxNodes)
  /\ lx_idx = 0
  /\ lx_nodetext = <<>>
  /\ lx_xs = [text |-> <<>>, namespaces |-> {}]
  /\ lx_yielded = <<>>
  /\ lx_pc = "start"

LxFrame == UNCHANGED <<csvVars, srVars, trVars, xiVars>>

\* Lines 120-130: sanitize, build the reader and the parser; replace may raise.
LxStart ==
  /\ lx_pc = "start"
  /\ lx_pc' = IF lx_setup.raised THEN "raised" ELSE "for"
  /\ UNCHANGED <<lx_args, lx_setup, lx_nodes, lx_idx, lx_nodetext, lx_xs, lx_yielded>>
  /\ LxFrame

\* Line 131: the parser hands the loop its next node, or the loop ends.
LxFor ==
  /\ lx_pc = "for"
  /\ IF lx_idx < Len(lx_nodes)
       THEN lx_idx' = lx_idx + 1 /\ lx_pc' = "tostring"
       ELSE lx_idx' = lx_idx /\ lx_pc' = "done"
  /\ UNCHANGED <<lx_args, lx_setup, lx_nodes, lx_nodetext, lx_xs, lx_yielded>>
  /\ LxFrame

\* Line 132.
LxToString ==
  /\ lx_pc = "tostring"
  /\ lx_nodetext' = tostring(lx_nodes[lx_idx])
  /\ lx_pc' = "clear"
  /\ UNCHANGED <<lx_args, lx_setup, lx_nodes, lx_idx, lx_xs, lx_yielded>>
  /\ LxFrame

\* Line 133.
LxClear ==
  /\ lx_pc = "clear"
  /\ lx_nodes' = [lx_nodes EXCEPT ![lx_idx] = node_clear(lx_nodes[lx_idx])]
  /\ lx_pc' = "selector"
  /\ UNCHANGED <<lx_args, lx_setup, lx_idx, lx_nodetext, lx_xs, lx_yielded>>
  /\ LxFrame

\* Lines 134-136.
LxSelector ==
  /\ lx_pc = "selector"
  /\ lx_xs' = [text |-> lx_nodetext,
               namespaces |-> IF lx_args.namespace.given
                                THEN {<<lx_args.prefix, lx_args.namespace.uri>>} ELSE {}]
  /\ lx_pc' = "yield"
  /\ UNCHANGED <<lx_args, lx_setup, lx_nodes, lx_idx, lx_nodetext, lx_yielded>>
  /\ LxFrame

\* Line 137: the record goes to the caller and the generator is suspended.
LxYield ==
  /\ lx_pc = "yield"
  /\ lx_yielded' = Append(lx_yielded, [xs |-> lx_xs, xpath |-> lx_setup.selxpath])
  /\ lx_pc' = "suspended"
  /\ UNCHANGED <<lx_args, lx_setup, lx_nodes, lx_idx, lx_nodetext, lx_xs>>
  /\ LxFrame

\* The caller asks for the next record.
LxResume ==
  /\ lx_pc = "suspended"
  /\ lx_pc' = "for"
  /\ UNCHANGED <<lx_args, lx_setup, lx_nodes, lx_idx, lx_nodetext, lx_xs, lx_yielded>>
  /\ LxFrame

----------------------------------------------------------------------------
\* Specifications.

InitCsv == SrIdle /\ TrIdle /\ XiIdle /\ LxIdle /\ CsvInit

NextCsv == CsvStart \/ CsvLoop

SpecCsv == InitCsv /\ [][NextCsv]_vars

InitReader == CsvIdle /\ TrIdle /\ XiIdle /\ LxIdle /\ SrInit

NextReader == SrCall

SpecReader == InitReader /\ [][NextReader]_vars

InitTag == CsvIdle /\ SrIdle /\ XiIdle /\ LxIdle /\ TrInit

NextTag == TrReplace \/ TrRestore

SpecTag == InitTag /\ [][NextTag]_vars

InitXmliter == CsvIdle /\ SrIdle /\ TrIdle /\ LxIdle /\ XiInit

NextXmliter == XiStart \/ XiLoop

SpecXmliter == InitXmliter /\ [][NextXmliter]_vars

InitLxml == CsvIdle /\ SrIdle /\ TrIdle /\ XiIdle /\ LxInit

NextLxml == LxStart \/ LxFor \/ LxToString \/ LxClear \/ LxSelector \/ LxYield \/ LxResume

SpecLxml == InitLxml /\ [][NextLxml]_vars

----------------------------------------------------------------------------
\* ---- Claims about csviter ----

\* The rows the reader has handed out that are data rows: all of them when the
\* caller's headers are used, all but the first when the first row is the header.
FirstData == IF headers_arg.given /\ headers_arg.names # <<>> THEN 1 ELSE 2

\* The line number csv.reader reports after row i: the physical lines of rows 1..i.
RECURSIVE LineOf(_, _)
LineOf(rows, i) == IF i = 0 THEN 0 ELSE LineOf(rows, i - 1) + rows[i].nlines

\* The mapping of a row under a header: each name to the field at its last position.
RecordOf(hdr, fields) ==
  [k \in Range(hdr) |->
     fields[CHOOSE i \in 1..Len(hdr) : hdr[i] = k /\ \A j \in (i + 1)..Len(hdr) : hdr[j] # k]]

\* The records of the rows i..j whose field count is the header's, in order.
RECURSIVE ExpectedYield(_, _, _, _)
ExpectedYield(rows, hdr, i, j) ==
  IF i > j THEN <<>>
  ELSE (IF Len(rows[i].fields) = Len(hdr) THEN <<RecordOf(hdr, rows[i].fields)>> ELSE <<>>)
       \o ExpectedYield(rows, hdr, i + 1, j)

\* The diagnostics of the rows i..j whose field count is not the header's, in order.
RECURSIVE ExpectedWarnings(_, _, _, _)
ExpectedWarnings(rows, hdr, i, j) ==
  IF i > j THEN <<>>
  ELSE (IF Len(rows[i].fields) # Len(hdr)
          THEN <<[csvlnum |-> LineOf(rows, i), csvrow |-> Len(rows[i].fields),
                  csvheader |-> Len(hdr)]>>
          ELSE <<>>)
       \o ExpectedWarnings(rows, hdr, i + 1, j)

\* C1: the mappings yielded are exactly the records of the data rows whose field
\* count equals the resolved header's, in document order; every other data row
\* yields nothing and leaves exactly one diagnostic (line number, actual count,
\* expected count); and the iteration ends only when every row has been read.
C1_RowFilter ==
  csv_pc \in {"loop", "done"} =>
    /\ yielded = ExpectedYield(csv_obj.rows, headers.names, FirstData, csv_r.pos)
    /\ warnings = ExpectedWarnings(csv_obj.rows, headers.names, FirstData, csv_r.pos)
    /\ (csv_pc = "done" => csv_r.pos = Len(csv_obj.rows))

\* A malformed data row was skipped with a diagnostic and a later well-formed
\* row was still yielded.
C1_Witness ==
  /\ csv_pc = "done"
  /\ csv_r.pos = 3
  /\ Len(csv_obj.rows[2].fields) # Len(headers.names)
  /\ Len(csv_obj.rows[3].fields) = Len(headers.names)
  /\ Len(warnings) = 1
  /\ Len(yielded) >= 1
  /\ yielded[Len(yielded)] = RecordOf(headers.names, csv_obj.rows[3].fields)

\* Header resolution as the code performs it once csviter has started, for a
\* caller whose headers count as supplied when Supplied holds.
HeaderResolution(Supplied) ==
  (csv_pc \in {"loop", "done"}) =>
    IF Supplied
      THEN /\ headers.names = headers_arg.names
           /\ Len(yielded) + Len(warnings) = csv_r.pos
      ELSE IF csv_obj.rows = <<>>
        THEN csv_pc = "done" /\ yielded = <<>> /\ warnings = <<>>
        ELSE /\ headers.names = csv_obj.rows[1].fields
             /\ Len(yielded) + Len(warnings) = csv_r.pos - 1

\* C2 as stated: whenever the caller supplies headers, whatever the sequence, no
\* input row is consumed as the header and the first row is a data row; only
\* without headers is the first row the header, and an input with no rows gives
\* zero records without error.
C2_AnyHeaders == HeaderResolution(headers_arg.given)

\* C2 as amended: the same, for a caller who supplies a non-empty sequence of
\* names; an empty sequence is treated like no headers at all.
C2_NonEmptyHeaders == HeaderResolution(headers_arg.given /\ headers_arg.names # <<>>)

\* Supplied headers were used and the first input row came out as a record.
C2_Witness ==
  /\ headers_arg.given
  /\ headers_arg.names = <<"x", "y">>
  /\ csv_r.pos = 1
  /\ Len(yielded) = 1
  /\ yielded[1] = RecordOf(<<"x", "y">>, csv_obj.rows[1].fields)


----------------------------------------------------------------------------
\* ---- Claims about TagReplacer ----

\* A tag name as the specification validates it: a non-empty str of lowercase
\* letters, digits, "-", ":" and "_".
ValidName(tag) ==
  /\ tag.type = "str"
  /\ tag.text # <<>>
  /\ \A i \in 1..Len(tag.text) : tag.text[i] \in TagChars

\* lit occurs in text.
Occurs(text, lit) == \E i \in 1..Len(text) : StartsWith(text, i, lit)

\* The tag name at position i, followed by optional attributes and then ">".
TagSiteAt(text, i, tag) == StartsWith(text, i, tag) /\ Lookahead(text, i + Len(tag))

\* An opening-tag occurrence: such a site right after the "<" of a tag start.
OpeningAt(text, i, tag) == i > 1 /\ text[i - 1] = "<" /\ TagSiteAt(text, i, tag)

\* out is inp with old replaced by new at some of its tag sites (opening-tag
\* occurrences only, when opening is TRUE), and every other character as it was.
RECURSIVE Aligned(_, _, _, _, _, _, _)
Aligned(opening, inp, out, i, j, old, new) ==
  IF i > Len(inp) THEN j > Len(out)
  ELSE \/ /\ j <= Len(out)
          /\ inp[i] = out[j]
          /\ Aligned(opening, inp, out, i + 1, j + 1, old, new)
       \/ /\ IF opening THEN OpeningAt(inp, i, old) ELSE TagSiteAt(inp, i, old)
          /\ StartsWith(out, j, new)
          /\ Aligned(opening, inp, out, i + Len(old), j + Len(new), old, new)

\* The calls that rewrote a text document under valid tag names.
Rewrites ==
  { k \in 1..Len(tr_log) :
      /\ tr_log[k].obj.type \in {"str", "Response"}
      /\ ValidName(tr_log[k].old_tag)
      /\ ValidName(tr_log[k].new_tag)
      /\ ~tr_log[k].out.raised }

\* C4: after replace, for valid tag names, no opening-tag occurrence of oldTag
\* is left in the result, however many the document had.
C4_NoOpeningTagLeft ==
  \A k \in Rewrites :
    ~\E i \in 1..Len(tr_log[k].out.val.text) :
       OpeningAt(tr_log[k].out.val.text, i, tr_log[k].old_tag.text)

\* C5 as stated: the result differs from the input only at opening-tag
\* occurrences of oldTag; closing tags and every other occurrence are unchanged.
C5_OnlyOpeningTagsChange ==
  \A k \in Rewrites :
    Aligned(TRUE, tr_log[k].obj.text, tr_log[k].out.val.text, 1, 1,
            tr_log[k].old_tag.text, tr_log[k].new_tag.text)

\* C5 as amended: the result differs from the input only at occurrences of
\* oldTag that are followed by optional attributes and then ">", which the
\* name in a closing tag </oldTag> is as much as the name in an opening tag;
\* an occurrence of oldTag not so followed (element text, an attribute value)
\* is identical in input and output.
C5_OnlyTagSitesChange ==
  \A k \in Rewrites :
    Aligned(FALSE, tr_log[k].obj.text, tr_log[k].out.val.text, 1, 1,
            tr_log[k].old_tag.text, tr_log[k].new_tag.text)

\* A rewrite changed a closing tag and left the tag name in element text alone.
C5_Witness ==
  /\ Len(tr_log) = 1
  /\ 1 \in Rewrites
  /\ tr_log[1].old_tag.text = TagAB
  /\ tr_log[1].obj.text = TagAB \o <<" ", "<", "/">> \o TagAB \o <<">">>
  /\ tr_log[1].out.val.text = TagAB \o <<" ", "<", "/">> \o TagAlias \o <<">">>

\* C6: a call with an invalid oldTag or newTag raises ValueError, whatever the
\* document; a call with valid names and a document that is not text, bytes or
\* a response raises TypeError; neither returns a document.
C6_ErrorOutcomes ==
  \A k \in 1..Len(tr_log) :
    LET c == tr_log[k]
    IN /\ (~ValidName(c.old_tag) \/ ~ValidName(c.new_tag))
            => (c.out.raised /\ c.out.exc = "ValueError")
       /\ (ValidName(c.old_tag) /\ ValidName(c.new_tag)
             /\ c.obj.type \notin {"str", "bytes", "Response"})
            => (c.out.raised /\ c.out.exc = "TypeError")

\* C7: for a text document d without the alias tag a-b, replacing a:b by a-b
\* and then a-b by a:b gives d back, however many a:b it holds; and replace
\* returns d unchanged when oldTag does not occur in d.
C7_RoundTrip ==
  /\ (/\ Len(tr_log) = 2
      /\ tr_log[1].obj.type = "str"
      /\ tr_log[1].old_tag = Str(TagAB)
      /\ tr_log[1].new_tag = Str(TagAlias)
      /\ ~Occurs(tr_log[1].obj.text, TagAlias))
       => (~tr_log[2].out.raised /\ tr_log[2].out.val = tr_log[1].obj)
  /\ \A k \in Rewrites :
       (tr_log[k].obj.type = "str" /\ ~Occurs(tr_log[k].obj.text, tr_log[k].old_tag.text))
         => tr_log[k].out.val = tr_log[k].obj

\* The number of tag sites of tag in text.
TagSites(text, tag) == Cardinality({i \in 1..Len(text) : TagSiteAt(text, i, tag)})

\* A document with more a:b tags than one call rewrites went through both calls:
\* the first changed it, the second gave it back.
C7_Witness ==
  /\ Len(tr_log) = 2
  /\ tr_log[1].obj.type = "str"
  /\ tr_log[1].old_tag = Str(TagAB)
  /\ tr_log[1].new_tag = Str(TagAlias)
  /\ ~Occurs(tr_log[1].obj.text, TagAlias)
  /\ TagSites(tr_log[1].obj.text, TagAB) > RE_MULTILINE
  /\ tr_log[1].out.val.text # tr_log[1].obj.text
  /\ tr_log[2].out.val = tr_log[1].obj

----------------------------------------------------------------------------
\* ---- Claims about _StreamReader ----

\* The input units a read of n from cursor c takes from the source.
Consumed(c, n) == IF c >= SrLen THEN 0 ELSE Min(n, SrLen - c)

\* The reads chain: each starts where the one before it left the cursor.
ReadsChain ==
  /\ sr_ptr = (IF sr_log = <<>> THEN 0 ELSE sr_log[Len(sr_log)].after)
  /\ \A i \in 1..Len(sr_log) :
       sr_log[i].before = (IF i = 1 THEN 0 ELSE sr_log[i - 1].after)

\* C8: a read returns an empty chunk only when no unread input remains, and from
\* a cursor at or past the end of the source every read returns an empty chunk.
C8_EmptyOnlyWhenExhausted ==
  \A i \in 1..Len(sr_log) :
    /\ sr_log[i].ret = <<>> => sr_log[i].after >= SrLen
    /\ sr_log[i].before >= SrLen => sr_log[i].ret = <<>>

\* C10 as stated: from 0, each read(n) moves the cursor by exactly the number of
\* input units it consumed, so a read at the end of input leaves the cursor where
\* it was and the cursor never exceeds the length of the source.
C10_CursorByConsumed ==
  /\ ReadsChain
  /\ \A i \in 1..Len(sr_log) :
       sr_log[i].after = sr_log[i].before + Consumed(sr_log[i].before, sr_log[i].n)
  /\ sr_ptr <= SrLen

\* C10 as amended: from 0, each read(n) moves the cursor by exactly n, the size
\* asked for, which is the number of units consumed only while n units remain:
\* the cursor grows strictly with every read, also at the end of input, and
\* passes the length of the source as soon as a read asks for more than is left.
C10_CursorByRequest ==
  /\ ReadsChain
  /\ \A i \in 1..Len(sr_log) :
       /\ sr_log[i].after = sr_log[i].before + sr_log[i].n
       /\ sr_log[i].after > sr_log[i].before
       /\ (sr_log[i].before + sr_log[i].n <= SrLen
             => sr_log[i].after = sr_log[i].before + Consumed(sr_log[i].before, sr_log[i].n))
       /\ (sr_log[i].before + sr_log[i].n > SrLen => sr_log[i].after > SrLen)

\* A read at the end of a non-empty source moved the cursor past the length.
C10_Witness ==
  /\ SrLen > 0
  /\ Len(sr_log) >= 2
  /\ sr_log[Len(sr_log)].before >= SrLen
  /\ sr_log[Len(sr_log)].ret = <<>>
  /\ sr_ptr > SrLen

----------------------------------------------------------------------------
\* ---- Claims about xmliter ----

\* The occurrences of the element t among the children, in document order.
Occurrences(elems) == SelectSeq(elems, LAMBDA el : el.occurrence)

\* The node text xmliter builds for an occurrence written as el.text.
ViewOf(el, text) ==
  <<"<", "t", " ">> \o SubSeq(el.text, 3, Len(el.text)) \o header_end(text, NodeT)

\* C3: for a well-formed document with N occurrences of the non-nested element
\* t, self-closing and whitespace-bearing occurrences included, the iterator
\* yields exactly N node views, one per occurrence, in document order.
C3_OneViewPerOccurrence ==
  xi_pc = "done" =>
    /\ Len(xi_yielded) = Len(Occurrences(xi_obj.elems))
    /\ \A i \in 1..Len(xi_yielded) :
         xi_yielded[i] = ViewOf(Occurrences(xi_obj.elems)[i], xi_obj.text)

----------------------------------------------------------------------------
\* ---- Claims about xmliter_lxml ----

\* C9: whenever a record is handed to the caller, no node fired so far, the
\* current one or an earlier one, still holds parsed content; each was cleared
\* after it was serialized, so the record carries the content the node had.
C9_ClearedBeforeYield ==
  lx_pc = "suspended" =>
    /\ \A i \in 1..lx_idx : lx_nodes[i].content = <<>>
    /\ Len(lx_yielded) = lx_idx
    /\ \A i \in 1..lx_idx : lx_yielded[i].xs.text = lx_nodes[i].source

\* The second record has been handed over, its node and the one before cleared.
C9_Witness ==
  /\ lx_pc = "suspended"
  /\ lx_idx = 2
  /\ Len(lx_yielded) = 2
  /\ lx_nodes[1].content = <<>>
  /\ lx_nodes[2].content = <<>>
  /\ Len(lx_nodes) = 3
  /\ lx_nodes[3].content # <<>>

====
